---- MODULE Spec2Model ----
(***************************************************************************)
(* Model of script.js of the personal site: the theme switcher (stored     *)
(* preference, effective mode, indicator glyph, filled dropdown option,    *)
(* icon animations) and the mobile floating toolbar (scroll / resize /     *)
(* click handling), the desktop hover zones and the localization loader.  *)
(* Every handler registered inside the DOMContentLoaded callback is one    *)
(* action; the browser (OS colour scheme, viewport width, scroll offset,   *)
(* click target, pointer, fetch outcome) is the environment.               *)
(***************************************************************************)
EXTENDS Integers, FiniteSets, Sequences, TLC

VARIABLES
    store,          \* localStorage item 'theme' (Absent when there is none)
    osDark,         \* matchMedia('(prefers-color-scheme: dark)').matches
    osPending,      \* a 'change' event of that media query is queued
    dataTheme,      \* document.documentElement.dataset.theme
    glyph,          \* themeIcon.textContent
    filled,         \* dropdown options whose icon has 'FILL' 1
    animClass,      \* icons that carry their animation class
    listeners,      \* number of 'animationend' listeners attached, per icon
    width,          \* viewport width in CSS pixels
    resizePending,  \* a 'resize' event is queued
    resizedWidth,   \* viewport width when 'resize' was last dispatched (or at load)
    visible,        \* themeSwitcher.classList has 'visible'
    showDropdown,   \* themeSwitcher.classList has 'show-dropdown'
    lastScrollY,    \* let lastScrollY
    last,           \* the handler (or environment change) that ran last
    scrollY,        \* window.scrollY
    storageThrows,  \* every localStorage read and write raises an error
    registered,     \* the 'scroll' and 'resize' listeners were registered
    hoverRegistered,          \* the hover listeners were registered at load
    loadWidth,                \* viewport width when the page loaded
    isMouseInRestrictedZone,  \* let isMouseInRestrictedZone
    expanded,       \* sections whose classList has 'expanded'
    inHeader,       \* the pointer is inside .main-header
    inFooter,       \* the pointer is inside .footer
    mouseX,         \* e.clientX of the last pointer move
    locale,         \* navigator.language
    translations,   \* languages.json: per language, the keys with a text
    fetchState,     \* fetchTranslations: "pending", "done" or "failed"
    docLang,        \* document.documentElement.lang
    content,        \* per [data-translate] key, the language of its element
    logged          \* number of console.error calls

hoverVars == <<hoverRegistered, loadWidth, isMouseInRestrictedZone, expanded,
               inHeader, inFooter, mouseX>>
langVars == <<locale, translations, fetchState, docLang, content, logged>>
loadVars == <<storageThrows, registered>>

vars == <<store, osDark, osPending, dataTheme, glyph, filled, animClass,
          listeners, width, resizePending, resizedWidth, visible,
          showDropdown, lastScrollY, last, scrollY, loadVars, hoverVars,
          langVars>>

themeVars == <<store, dataTheme, glyph, filled, animClass, listeners>>
toolbarVars == <<visible, showDropdown, lastScrollY>>
envVars == <<osDark, osPending, width, resizePending, resizedWidth>>
\* What no handler of the theme switcher and the toolbar touches.
otherVars == <<loadVars, hoverVars, langVars>>

----------------------------------------------------------------------------
(* Bounds and program constants *)

MaxListeners == 2
MaxOver == 2

scrollThreshold == 100
MobileMaxWidth == 768
DesktopMinWidth == 769

\* localStorage.getItem returns null when the key was never written.
Absent == "<null>"

\* Strings with a double quote or a line break: interpolated into the
\* selector of line 201 they make it invalid, and querySelector raises.
BreaksSelector == {"a\"b", "dark\"]", "system\n"}

\* Strings with CSS escapes: inside the quotes of the selector of line 201
\* they are read as a CSS string, whose value is then another text.
CssEscaped == {"dar\\k", "\\64 ark"}

\* A string that closes the attribute selector and opens a second one: the
\* selector of line 201 becomes the list
\*   a[data-theme="dark"], a[data-theme="light"] .material-symbols-rounded
SelectorList == "dark\"], a[data-theme=\"light"

\* What the store may hold when the page loads: nothing, the empty string,
\* the three values the script writes, or a string written by something else.
StoredAtLoad == {Absent, "", "light", "dark", "system", "sepia"}
                    \cup BreaksSelector \cup CssEscaped \cup {SelectorList}

\* The selectable options of the dropdown: a[data-theme] anchors.
ThemeOptions == {"light", "dark", "system"}

ThemeIcon == "theme-icon"
Icons == {ThemeIcon} \cup ThemeOptions

\* The widest mobile viewport and the narrowest desktop one.
Widths == {MobileMaxWidth, DesktopMinWidth}

ScrollOffsets == {0} \cup (scrollThreshold .. scrollThreshold + MaxOver)

\* Where a click can land.
OptionTargets == {[kind |-> "option", theme |-> t] : t \in ThemeOptions}
\* "dropdown": inside the dropdown but on no option; "button": the toggle
\* button; "outside": anywhere outside the toolbar.
OtherTargets == {[kind |-> k, theme |-> "-"] :
                    k \in {"dropdown", "button", "outside"}}
ClickTargets == OptionTargets \cup OtherTargets

----------------------------------------------------------------------------
(* Media queries *)

mobileMediaQuery(w) == w <= MobileMaxWidth

----------------------------------------------------------------------------
(* Theme switcher *)

\* localStorage.getItem('theme') || 'system'
savedTheme(item) == IF item = Absent \/ item = "" THEN "system" ELSE item

\* animateIcon(icon, animationClass) on the pair <<animClass, listeners>>
animateIcon(icon, anim) ==
    [animClass |-> anim.animClass \cup {icon},
     listeners |-> [anim.listeners EXCEPT ![icon] = @ + 1]]

\* themeDropdown.querySelector(`a[data-theme="${theme}"] ...`) raises a
\* SyntaxError: applyTheme ends at line 201, after the mode, the glyph and
\* the store were written, the theme icon animated and every fill reset.
selectorThrows(theme) == theme \in BreaksSelector

\* The value of the CSS string "${theme}": a backslash escapes the
\* character, or the code point in hexadecimal, that follows it.
cssStringValue(theme) == IF theme \in CssEscaped THEN "dark" ELSE theme

\* The options whose icon the selector of line 201 selects; of a selector
\* list, the part that ends in the icon's class.
selected(theme) ==
    IF theme = SelectorList THEN {"light"}
    ELSE {o \in ThemeOptions : o = cssStringValue(theme)}

\* themeDropdown.querySelector(`a[data-theme="${theme}"] .material-symbols-rounded`)
\* (no option is found, filled or animated when the call raises)
activeIcon(theme) == IF selectorThrows(theme) THEN {} ELSE selected(theme)

\* Variant: the OS preference is applied whatever the selected theme
effectiveModeFromOS(theme, prefersDark) ==
    IF prefersDark THEN "dark" ELSE "light"

\* The value applyTheme writes to document.documentElement.dataset.theme
effectiveMode(theme, prefersDark) ==
    IF theme = "system"
    THEN (IF prefersDark THEN "dark" ELSE "light")
    ELSE theme

\* The value applyTheme writes to themeIcon.textContent
iconGlyph(theme) ==
    IF theme = "system" THEN "brightness_auto"
    ELSE IF theme = "dark" THEN "dark_mode" ELSE "light_mode"

\* Variant: the derived mode is stored in place of 'system'
storedDerivedMode(theme) == IF theme = "system" THEN "light" ELSE theme

\* The value applyTheme passes to localStorage.setItem('theme', ...)
storedValue(theme) == theme

\* Variant: the animate flag is ignored
animatedAlways(theme, animate) == {ThemeIcon} \cup activeIcon(theme)

\* The icons applyTheme animates
animated(theme, animate) ==
    IF animate THEN {ThemeIcon} \cup activeIcon(theme) ELSE {}

RECURSIVE animateAll(_, _)
animateAll(icons, anim) ==
    IF icons = {} THEN anim
    ELSE LET i == CHOOSE x \in icons : TRUE
         IN animateAll(icons \ {i}, animateIcon(i, anim))

\* applyTheme(theme, animate): the theme state it leaves behind
applyThemeResult(theme, animate, prefersDark, anim) ==
    LET a == animateAll(animated(theme, animate), anim)
    IN [dataTheme |-> effectiveMode(theme, prefersDark),
        glyph     |-> iconGlyph(theme),
        store     |-> storedValue(theme),
        filled    |-> activeIcon(theme),
        animClass |-> a.animClass,
        listeners |-> a.listeners]

\* Variant: the fill of the other options is not reset
applyThemeKeepingFill(theme, animate) ==
    LET r == applyThemeResult(theme, animate, osDark,
                              [animClass |-> animClass, listeners |-> listeners])
    IN /\ dataTheme' = r.dataTheme
       /\ glyph' = r.glyph
       /\ store' = r.store
       /\ filled' = filled \cup r.filled
       /\ animClass' = r.animClass
       /\ listeners' = r.listeners

applyTheme(theme, animate) ==
    LET r == applyThemeResult(theme, animate, osDark,
                              [animClass |-> animClass, listeners |-> listeners])
    IN /\ dataTheme' = r.dataTheme
       /\ glyph' = r.glyph
       /\ store' = r.store
       /\ filled' = r.filled
       /\ animClass' = r.animClass
       /\ listeners' = r.listeners

\* applyTheme with animate = true attaches one more listener to these icons;
\* the model stops at MaxListeners per icon.
CanAnimate(theme) ==
    \A i \in animated(theme, TRUE) : listeners[i] < MaxListeners

----------------------------------------------------------------------------
(* Page load: the DOMContentLoaded callback run to its end *)

\* The markup ships no icon with an animation class, and the toolbar
\* without 'visible' and 'show-dropdown'.
NoAnim == [animClass |-> {}, listeners |-> [i \in Icons |-> 0]]
MarkupClasses == [visible |-> FALSE, showDropdown |-> FALSE]

\* if (mobileMediaQuery.matches) themeSwitcher.classList.remove('visible')
loadClasses(mobile, c) ==
    IF mobile THEN [visible |-> FALSE, showDropdown |-> c.showDropdown] ELSE c

\* Lines 149-300 with a working store: the saved theme is applied without
\* animation, the scroll and resize listeners are registered. When
\* applyTheme raises at line 201 the callback ends there: lines 263-300
\* never run, the toolbar keeps the classes of the markup.
LoadTheme(item, dark, w, y) ==
    LET r == applyThemeResult(savedTheme(item), FALSE, dark, NoAnim)
        completed == ~selectorThrows(savedTheme(item))
        c == IF completed THEN loadClasses(mobileMediaQuery(w), MarkupClasses)
             ELSE MarkupClasses
    IN /\ osDark = dark
       /\ osPending = FALSE
       /\ dataTheme = r.dataTheme
       /\ glyph = r.glyph
       /\ store = r.store
       /\ filled = r.filled
       /\ animClass = r.animClass
       /\ listeners = r.listeners
       /\ width = w
       /\ resizePending = FALSE
       /\ resizedWidth = w
       /\ visible = c.visible
       /\ showDropdown = c.showDropdown
       /\ lastScrollY = (IF completed THEN y ELSE 0)   \* else never initialised
       /\ scrollY = y
       /\ storageThrows = FALSE
       /\ registered = completed
       /\ last = [ev |-> "load", arg |-> item]

\* What the markup ships: these are overwritten by the first applyTheme.
MarkupTheme == "markup"
MarkupGlyph == "markup"
MarkupFilled == {}

\* Lines 149-257 when localStorage raises: the listeners of lines 211-254
\* are registered, line 257 raises and the callback ends there.
LoadThemeThrowing(dark, w, y) ==
    /\ osDark = dark
    /\ osPending = FALSE
    /\ dataTheme = MarkupTheme
    /\ glyph = MarkupGlyph
    /\ store = Absent
    /\ filled = MarkupFilled
    /\ animClass = NoAnim.animClass
    /\ listeners = NoAnim.listeners
    /\ width = w
    /\ resizePending = FALSE
    /\ resizedWidth = w
    /\ visible = MarkupClasses.visible
    /\ showDropdown = MarkupClasses.showDropdown
    /\ lastScrollY = 0            \* never initialised, never read
    /\ scrollY = y
    /\ storageThrows = TRUE
    /\ registered = FALSE
    /\ last = [ev |-> "load", arg |-> "<throws>"]

\* The page has a .desktop-layout element.
HasDesktopLayout == TRUE

\* Variant: the hover listeners are registered on every viewport
hoverGuardAlways(w) == HasDesktopLayout

\* desktopLayout && window.matchMedia('(min-width: 769px)').matches
hoverGuard(w) == HasDesktopLayout /\ w >= DesktopMinWidth

\* Lines 93-139: the hover listeners are registered, or not.
LoadHover(w) ==
    /\ hoverRegistered = hoverGuard(w)
    /\ loadWidth = w
    /\ isMouseInRestrictedZone = FALSE
    /\ expanded = {}
    /\ inHeader = FALSE
    /\ inFooter = FALSE
    /\ mouseX = 0

\* The document's language and content as the markup ships them.
Shipped == "shipped"

\* The data-translate keys of the page's elements.
TranslateKeys == {"title", "about"}
ShippedContent == [k \in TranslateKeys |-> Shipped]

\* A languages.json with a complete table for each of the languages.
completeTables(languages) == [l \in languages |-> TranslateKeys]

\* Line 65: fetchTranslations is started; its fetch is in flight.
LoadLang(loc, tables) ==
    /\ locale = loc
    /\ translations = tables
    /\ fetchState = "pending"
    /\ docLang = Shipped
    /\ content = ShippedContent
    /\ logged = 0

\* The stored values with which the callback runs to its end.
CompletingLoads == {item \in StoredAtLoad : ~selectorThrows(savedTheme(item))}

\* The page loaded, its callback run to the end, for the behaviours of the
\* theme switcher and the toolbar: at desktop width (mobile widths are
\* reached by resizing), with an English browser and an English table.
Init ==
    \E item \in CompletingLoads, dark \in BOOLEAN, y \in ScrollOffsets :
        /\ LoadTheme(item, dark, DesktopMinWidth, y)
        /\ LoadHover(DesktopMinWidth)
        /\ LoadLang("en", completeTables({"en"}))

----------------------------------------------------------------------------
(* Environment *)

\* The OS colour scheme flips; the media query queues its 'change' event.
OSChange ==
    /\ osDark' = ~osDark
    /\ osPending' = TRUE
    /\ last' = [ev |-> "os", arg |-> "-"]
    /\ UNCHANGED <<themeVars, toolbarVars, width, resizePending, resizedWidth>>
    /\ UNCHANGED <<scrollY, otherVars>>

\* The window is resized (w = width: only its height changed); the window
\* queues its 'resize' event.
ViewportChange(w) ==
    /\ width' = w
    /\ resizePending' = TRUE
    /\ last' = [ev |-> "viewport", arg |-> "-"]
    /\ UNCHANGED <<themeVars, toolbarVars, osDark, osPending, resizedWidth>>
    /\ UNCHANGED <<scrollY, otherVars>>

----------------------------------------------------------------------------
(* Handlers *)

\* Variant: the listener never re-applies the theme
OnColorSchemeChangeIgnored ==
    /\ osPending
    /\ osPending' = FALSE
    /\ last' = [ev |-> "change", arg |-> "-"]
    /\ UNCHANGED <<themeVars, toolbarVars, osDark, width, resizePending, resizedWidth>>
    /\ UNCHANGED <<scrollY, otherVars>>

\* window.matchMedia('(prefers-color-scheme: dark)') 'change' listener
OnColorSchemeChange ==
    /\ osPending
    /\ osPending' = FALSE
    /\ IF storageThrows
       THEN UNCHANGED themeVars   \* getItem raises: the listener ends there
       ELSE IF savedTheme(store) = "system"
            THEN CanAnimate("system") /\ applyTheme("system", TRUE)
            ELSE UNCHANGED themeVars
    /\ last' = [ev |-> "change", arg |-> "-"]
    /\ UNCHANGED <<toolbarVars, osDark, width, resizePending, resizedWidth>>
    /\ UNCHANGED <<scrollY, otherVars>>

\* themeDropdown 'click' listener: e.target.closest('a')?.dataset.theme
clickedTheme(target) == IF target.kind = "option" THEN {target.theme} ELSE {}

\* Variant: the toggle button is not inside the toolbar element
inToolbarWithoutButton(target) == target.kind \in {"option", "dropdown"}

\* themeSwitcher.contains(e.target)
inToolbar(target) == target.kind # "outside"

\* Variant: an option click collapses the dropdown on every viewport
dropdownAfterClickAlwaysCollapsing(target, mobile, open) ==
    LET afterOption == IF clickedTheme(target) # {} THEN FALSE ELSE open
        afterButton == IF target.kind = "button" /\ mobile
                       THEN ~afterOption ELSE afterOption
    IN IF mobile /\ ~inToolbar(target) THEN FALSE ELSE afterButton

\* showDropdown after the three click listeners ran, in bubbling order:
\* themeDropdown, themeSwitcherButton, document.
dropdownAfterClick(target, mobile, open) ==
    LET afterOption == IF clickedTheme(target) # {} /\ mobile THEN FALSE ELSE open
        afterButton == IF target.kind = "button" /\ mobile
                       THEN ~afterOption ELSE afterOption
    IN IF mobile /\ ~inToolbar(target) THEN FALSE ELSE afterButton

\* applyTheme when localStorage.setItem raises: lines 177-186 ran, nothing
\* after line 188 does.
applyThemeThrowing(theme) ==
    /\ dataTheme' = effectiveMode(theme, osDark)
    /\ glyph' = iconGlyph(theme)
    /\ UNCHANGED <<store, filled, animClass, listeners>>

\* The target as the click listeners that run to their end see it: when
\* applyTheme raises (line 188 or 201), the themeDropdown listener ends before its
\* classList.remove, as for a click on no option.
completedFor(target) ==
    IF \E t \in clickedTheme(target) : storageThrows \/ selectorThrows(t)
    THEN [kind |-> "dropdown", theme |-> "-"]
    ELSE target

Click(target) ==
    /\ IF clickedTheme(target) # {}
       THEN \E t \in clickedTheme(target) :
                IF storageThrows
                THEN applyThemeThrowing(t)
                ELSE CanAnimate(t) /\ applyTheme(t, TRUE)
       ELSE UNCHANGED themeVars
    /\ showDropdown' = dropdownAfterClick(completedFor(target),
                                          mobileMediaQuery(width), showDropdown)
    /\ last' = IF target.kind = "option"
               THEN [ev |-> "click-option", arg |-> target.theme]
               ELSE [ev |-> "click", arg |-> target.kind]
    /\ UNCHANGED <<visible, lastScrollY, envVars, scrollY, otherVars>>

\* Variant: the threshold itself counts as past the threshold
scrollClassesAtThreshold(mobile, currentScrollY, lastY, vis, open) ==
    IF mobile
    THEN IF currentScrollY > lastY /\ currentScrollY >= scrollThreshold
         THEN [visible |-> TRUE, showDropdown |-> open]
         ELSE IF currentScrollY < lastY \/ currentScrollY < scrollThreshold
              THEN [visible |-> FALSE, showDropdown |-> FALSE]
              ELSE [visible |-> vis, showDropdown |-> open]
    ELSE [visible |-> FALSE, showDropdown |-> open]

\* themeSwitcher's classes after handleScroll
scrollClasses(mobile, currentScrollY, lastY, vis, open) ==
    IF mobile
    THEN IF currentScrollY > lastY /\ currentScrollY > scrollThreshold
         THEN [visible |-> TRUE, showDropdown |-> open]
         ELSE IF currentScrollY < lastY \/ currentScrollY <= scrollThreshold
              THEN [visible |-> FALSE, showDropdown |-> FALSE]
              ELSE [visible |-> vis, showDropdown |-> open]
    ELSE [visible |-> FALSE, showDropdown |-> open]

\* Variant: the baseline is updated in the mobile branch only
scrollBaselineMobileOnly(mobile, currentScrollY, lastY) ==
    IF mobile THEN currentScrollY ELSE lastY

\* lastScrollY after handleScroll
scrollBaseline(mobile, currentScrollY, lastY) == currentScrollY

\* The page is scrolled to currentScrollY and the 'scroll' event is
\* dispatched; handleScroll runs if it was registered.
handleScroll(currentScrollY) ==
    LET c == scrollClasses(mobileMediaQuery(width), currentScrollY, lastScrollY,
                           visible, showDropdown)
    IN /\ scrollY' = currentScrollY
       /\ IF registered
          THEN /\ visible' = c.visible
               /\ showDropdown' = c.showDropdown
               /\ lastScrollY' = scrollBaseline(mobileMediaQuery(width),
                                                currentScrollY, lastScrollY)
          ELSE UNCHANGED toolbarVars
       /\ last' = [ev |-> "scroll", arg |-> "-"]
       /\ UNCHANGED <<themeVars, envVars, otherVars>>

\* Variant: only the dropdown is closed on a desktop viewport
resizeClassesKeepingVisible(mobile, vis, open) ==
    IF ~mobile
    THEN [visible |-> vis, showDropdown |-> FALSE]
    ELSE [visible |-> vis, showDropdown |-> open]

\* Variant: the classes are removed on every resize
resizeClassesAlways(mobile, vis, open) ==
    [visible |-> FALSE, showDropdown |-> FALSE]

\* themeSwitcher's classes after handleResize
resizeClasses(mobile, vis, open) ==
    IF ~mobile
    THEN [visible |-> FALSE, showDropdown |-> FALSE]
    ELSE [visible |-> vis, showDropdown |-> open]

handleResize ==
    /\ resizePending
    /\ resizePending' = FALSE
    /\ resizedWidth' = width
    /\ LET c == resizeClasses(mobileMediaQuery(width), visible, showDropdown)
       IN IF registered
          THEN /\ visible' = c.visible
               /\ showDropdown' = c.showDropdown
          ELSE UNCHANGED <<visible, showDropdown>>
    /\ last' = [ev |-> "resize",
                arg |-> IF mobileMediaQuery(resizedWidth) # mobileMediaQuery(width)
                        THEN "crossed" ELSE "same"]
    /\ UNCHANGED <<themeVars, lastScrollY, osDark, osPending, width>>
    /\ UNCHANGED <<scrollY, otherVars>>

\* Variant: the listener removes the class and stays attached
listenerStayingAttached(icon, anim) ==
    [animClass |-> anim.animClass \ {icon}, listeners |-> anim.listeners]

\* animateIcon's listener: removes the animation class, then itself
listener(icon, anim) ==
    [animClass |-> anim.animClass \ {icon},
     listeners |-> [anim.listeners EXCEPT ![icon] = @ - 1]]

\* The n listeners attached to the icon run one after the other.
RECURSIVE runListeners(_, _, _)
runListeners(icon, n, anim) ==
    IF n = 0 THEN anim ELSE runListeners(icon, n - 1, listener(icon, anim))

\* 'animationend' on an icon whose animation ran: every listener attached
\* by animateIcon runs.
AnimationEnd(icon) ==
    /\ icon \in animClass
    /\ LET a == runListeners(icon, listeners[icon],
                             [animClass |-> animClass, listeners |-> listeners])
       IN /\ animClass' = a.animClass
          /\ listeners' = a.listeners
    /\ last' = [ev |-> "animationend", arg |-> "-"]
    /\ UNCHANGED <<store, dataTheme, glyph, filled, toolbarVars, envVars>>
    /\ UNCHANGED <<scrollY, otherVars>>

----------------------------------------------------------------------------

Next ==
    \/ OSChange
    \/ \E w \in Widths : ViewportChange(w)
    \/ OnColorSchemeChange
    \/ \E target \in ClickTargets : Click(target)
    \/ \E y \in ScrollOffsets : handleScroll(y)
    \/ handleResize
    \/ \E icon \in Icons : AnimationEnd(icon)

Spec == Init /\ [][Next]_vars

----------------------------------------------------------------------------
(* Desktop hover effect *)

Sections == {"real-life", "furry-life"}
Regions == {"header", "footer"}

\* e.clientX values on both sides of the thirds of the modelled widths
PointerXs == LET third == MobileMaxWidth \div 3
             IN {third - 1, third, third + 1, 2 * third, 2 * third + 1}

\* Variant: the boundaries belong to the outer thirds
hoverZoneInclusive(x, windowWidth) ==
    IF 3 * x <= windowWidth THEN {"real-life"}
    ELSE IF 3 * x >= 2 * windowWidth THEN {"furry-life"}
    ELSE {}

\* The sections with 'expanded' after the mousemove listener, lines 120-132:
\* mouseX < windowWidth / 3, mouseX > windowWidth * 2 / 3
hoverZone(x, windowWidth) ==
    IF 3 * x < windowWidth THEN {"real-life"}
    ELSE IF 3 * x > 2 * windowWidth THEN {"furry-life"}
    ELSE {}

hoverFrame == UNCHANGED <<themeVars, toolbarVars, envVars, scrollY, loadVars,
                          langVars, hoverRegistered, loadWidth>>

\* 'mouseenter' on the header or the footer
MouseEnter(region) ==
    /\ IF region = "header"
       THEN ~inHeader /\ inHeader' = TRUE /\ UNCHANGED inFooter
       ELSE ~inFooter /\ inFooter' = TRUE /\ UNCHANGED inHeader
    /\ IF hoverRegistered
       THEN isMouseInRestrictedZone' = TRUE /\ expanded' = {}
       ELSE UNCHANGED <<isMouseInRestrictedZone, expanded>>
    /\ last' = [ev |-> "mouseenter", arg |-> region]
    /\ UNCHANGED mouseX
    /\ hoverFrame

\* 'mouseleave' on the header or the footer
MouseLeave(region) ==
    /\ IF region = "header"
       THEN inHeader /\ inHeader' = FALSE /\ UNCHANGED inFooter
       ELSE inFooter /\ inFooter' = FALSE /\ UNCHANGED inHeader
    /\ IF hoverRegistered
       THEN isMouseInRestrictedZone' = FALSE
       ELSE UNCHANGED isMouseInRestrictedZone
    /\ last' = [ev |-> "mouseleave", arg |-> region]
    /\ UNCHANGED <<expanded, mouseX>>
    /\ hoverFrame

\* 'mousemove' on the document
MouseMove(x) ==
    /\ mouseX' = x
    /\ IF hoverRegistered /\ ~isMouseInRestrictedZone
       THEN expanded' = hoverZone(x, width)
       ELSE UNCHANGED expanded
    /\ last' = [ev |-> "mousemove", arg |-> "-"]
    /\ UNCHANGED <<isMouseInRestrictedZone, inHeader, inFooter>>
    /\ hoverFrame

\* 'mouseleave' on the document: the pointer left the window
MouseLeaveDocument ==
    /\ IF hoverRegistered THEN expanded' = {} ELSE UNCHANGED expanded
    /\ last' = [ev |-> "mouseleave", arg |-> "document"]
    /\ UNCHANGED <<isMouseInRestrictedZone, inHeader, inFooter, mouseX>>
    /\ hoverFrame

\* The page loaded at either width, for the behaviours of the hover effect.
InitHover ==
    \E w \in Widths :
        LoadTheme("system", FALSE, w, 0) /\ LoadHover(w) /\ LoadLang("en", completeTables({"en"}))

NextHover ==
    \/ \E region \in Regions : MouseEnter(region)
    \/ \E region \in Regions : MouseLeave(region)
    \/ \E x \in PointerXs : MouseMove(x)
    \/ MouseLeaveDocument
    \/ \E w \in Widths : ViewportChange(w)
    \/ handleResize

SpecHover == InitHover /\ [][NextHover]_vars

----------------------------------------------------------------------------
(* Localization *)

traditionalChineseLocales == {"zh-Hant", "zh-Hant-TW", "zh-Hant-MO", "zh-Hant-HK", "zh-TW"}
simplifiedChineseLocales == {"zh-Hans", "zh-Hans-CN", "zh-Hans-SG", "zh-CN"}

\* Browser locales and translation maps the loader is run on.
Locales == traditionalChineseLocales \cup simplifiedChineseLocales
               \cup {"en", "en-US", "fr", "zh", "zh-HK"}
TableLanguages == {"en", "zh-TW", "zh-CN", "fr", "zh-Hant-HK"}
\* The table of a language holds the keys that have a non-empty text. Only
\* the table of the chosen language is read, so the tables of one file
\* have the same keys here.
TableSets == {[l \in languages |-> keys] :
                 languages \in SUBSET TableLanguages, keys \in SUBSET TranslateKeys}

\* Variant: zh-Hant-HK is missing from the traditional list
userLanguageWithoutHK(language) ==
    IF language \in traditionalChineseLocales \ {"zh-Hant-HK"} THEN "zh-TW"
    ELSE IF language \in simplifiedChineseLocales THEN "zh-CN"
    ELSE language

\* userLanguage after lines 47-55
userLanguage(language) ==
    IF language \in traditionalChineseLocales THEN "zh-TW"
    ELSE IF language \in simplifiedChineseLocales THEN "zh-CN"
    ELSE language

\* const language = translations[userLanguage] ? userLanguage : 'en'
chosenLanguage(language, tables) ==
    IF userLanguage(language) \in DOMAIN tables THEN userLanguage(language) ELSE "en"

\* setLanguage(language, translations): the document language, and per
\* element the language of its content: replaced only when
\* translations[language] && translations[language][key]
setLanguage(language, tables, shown) ==
    [docLang |-> language,
     content |-> [key \in TranslateKeys |->
                     IF language \in DOMAIN tables /\ key \in tables[language]
                     THEN language ELSE shown[key]]]

\* The fetch and the parse succeed: lines 46-59.
FetchResolves ==
    /\ fetchState = "pending"
    /\ fetchState' = "done"
    /\ LET r == setLanguage(chosenLanguage(locale, translations), translations, content)
       IN /\ docLang' = r.docLang
          /\ content' = r.content
    /\ last' = [ev |-> "fetch", arg |-> "ok"]
    /\ UNCHANGED <<locale, translations, logged>>
    /\ UNCHANGED <<themeVars, toolbarVars, envVars, scrollY, loadVars, hoverVars>>

\* Variant: the document language is set before the table is awaited
FetchFailsAfterLang(kind) ==
    /\ fetchState = "pending"
    /\ fetchState' = "failed"
    /\ logged' = logged + 1
    /\ docLang' = userLanguage(locale)
    /\ last' = [ev |-> "fetch", arg |-> kind]
    /\ UNCHANGED <<locale, translations, content>>
    /\ UNCHANGED <<themeVars, toolbarVars, envVars, scrollY, loadVars, hoverVars>>

\* fetch rejects ("network") or response.json() rejects ("parse"): the
\* catch of lines 60-62 logs the error.
FetchFails(kind) ==
    /\ fetchState = "pending"
    /\ fetchState' = "failed"
    /\ logged' = logged + 1
    /\ last' = [ev |-> "fetch", arg |-> kind]
    /\ UNCHANGED <<locale, translations, docLang, content>>
    /\ UNCHANGED <<themeVars, toolbarVars, envVars, scrollY, loadVars, hoverVars>>

\* The page loaded on a mobile viewport, for the behaviours of the loader.
InitLang ==
    \E loc \in Locales, tables \in TableSets :
        /\ LoadTheme(Absent, FALSE, MobileMaxWidth, 0)
        /\ LoadHover(MobileMaxWidth)
        /\ LoadLang(loc, tables)

\* The loader's outcomes, with the scroll handler and the toggle button
\* running before and after them.
NextLang ==
    \/ FetchResolves
    \/ \E kind \in {"network", "parse"} : FetchFails(kind)
    \/ \E y \in ScrollOffsets : handleScroll(y)
    \/ Click([kind |-> "button", theme |-> "-"])

SpecLang == InitLang /\ [][NextLang]_vars

----------------------------------------------------------------------------

\* The page loaded with a stored value that is none of the script's own.
InitUnrecognized ==
    \E item \in StoredAtLoad \ ({Absent, ""} \cup ThemeOptions),
       dark \in BOOLEAN, y \in ScrollOffsets :
        /\ LoadTheme(item, dark, DesktopMinWidth, y)
        /\ LoadHover(DesktopMinWidth)
        /\ LoadLang("en", completeTables({"en"}))

\* No option is clicked, so that the store keeps the value it was loaded with.
NextUnrecognized ==
    \/ OSChange
    \/ \E w \in Widths : ViewportChange(w)
    \/ OnColorSchemeChange
    \/ \E target \in OtherTargets : Click(target)
    \/ \E y \in ScrollOffsets : handleScroll(y)
    \/ handleResize

SpecUnrecognized == InitUnrecognized /\ [][NextUnrecognized]_vars

\* The page loaded while every access to localStorage raises.
InitStorageFails ==
    \E dark \in BOOLEAN, w \in Widths, y \in ScrollOffsets :
        LoadThemeThrowing(dark, w, y) /\ LoadHover(w) /\ LoadLang("en", completeTables({"en"}))

\* No icon is ever animated then, so no 'animationend' is delivered.
NextStorageFails ==
    \/ OSChange
    \/ \E w \in Widths : ViewportChange(w)
    \/ OnColorSchemeChange
    \/ \E target \in ClickTargets : Click(target)
    \/ \E y \in ScrollOffsets : handleScroll(y)
    \/ handleResize

SpecStorageFails == InitStorageFails /\ [][NextStorageFails]_vars

----------------------------------------------------------------------------
(* Properties *)

\* The mode the OS reports, and whether the viewport is a mobile one, now.
OSMode == IF osDark THEN "dark" ELSE "light"
Mobile == width <= 768
ExplicitThemes == {"light", "dark"}
ThemeView == <<dataTheme, glyph, store, filled>>

\* C1 (state part): whenever the stored preference is light or dark, the
\* root data-theme equals it.
C1_Inv == store \in ExplicitThemes => dataTheme = store

\* C1 (step part): the colour-scheme 'change' handler, run while the stored
\* preference is explicit, changes none of mode, glyph, store, filled option.
C1_Step == (last'.ev = "change" /\ store \in ExplicitThemes) => UNCHANGED ThemeView

\* C1: with an explicit stored preference the effective mode is that
\* preference in every reachable state, and an OS change signal leaves the
\* mode, the glyph, the stored preference and the filled option unchanged.
C1_ExplicitOverridesOS == []C1_Inv /\ [][C1_Step]_vars

\* C1 witness: the OS went light, its signal was handled, the page is dark.
C1_Witness ==
    /\ last.ev = "change"
    /\ store = "dark" /\ ~osDark
    /\ dataTheme = "dark" /\ glyph = "dark_mode" /\ filled = {"dark"}

\* C2: while the stored preference is 'system', the effective mode equals
\* the OS preference once applyTheme('system') or the OS change handler has
\* completed (no OS change signal is left undelivered).
C2_SystemFollowsOS ==
    (store = "system" /\ (~osPending \/ last.ev = "change"
                          \/ (last.ev = "click-option" /\ last.arg = "system")))
        => dataTheme = OSMode

\* C2 witness: the OS changed to dark, the handler ran, the page followed.
C2_Witness ==
    /\ last.ev = "change" /\ store = "system"
    /\ osDark /\ dataTheme = "dark" /\ glyph = "brightness_auto"

\* C3: a stored preference that is absent or outside {light, dark, system}
\* is treated as 'system': the mode is the OS preference (once its signals
\* are delivered), the glyph is the auto glyph, the mode is light or dark.
C3_UnrecognizedIsSystem ==
    /\ dataTheme \in {"light", "dark"}
    /\ (last.ev = "load" /\ last.arg \notin {"light", "dark", "system"})
           => (dataTheme = OSMode /\ glyph = "brightness_auto")
    /\ (store \notin {"light", "dark"} /\ ~osPending)
           => (dataTheme = OSMode /\ glyph = "brightness_auto")

\* C4 (state part): right after applyTheme(p), at load (animate = false) or
\* from a click or the OS change handler (animate = true), the store holds p.
C4_Inv ==
    /\ last.ev = "click-option" => store = last.arg
    /\ (last.ev = "load" /\ last.arg \in {"light", "dark", "system"})
           => store = last.arg
    /\ (last.ev = "load" /\ last.arg \in {"<null>", ""}) => store = "system"

\* C4 (step part): no step other than a click on an option changes the store.
C4_Step == last'.ev # "click-option" => store' = store

\* C4: after applyTheme(p) the store holds exactly p, 'system' included, and
\* no other handler changes the stored value.
C4_PersistenceRoundTrip == []C4_Inv /\ [][C4_Step]_vars

\* C4 witness: 'system' was clicked while the OS is dark; the store holds
\* 'system', not the derived mode.
C4_Witness ==
    /\ last.ev = "click-option" /\ last.arg = "system"
    /\ osDark /\ dataTheme = "dark" /\ store = "system"

\* C5: exactly one option is filled, the one whose data-theme is the stored
\* preference.
C5_OneFilledOption == Cardinality(filled) = 1 /\ filled = {store}

\* C6: applyTheme(p) run a second time right after applyTheme(p), with no
\* OS change in between, leaves mode, glyph, store and the single filled
\* option as the first run left them.
C6_Step ==
    (/\ last'.ev = "click-option"
     /\ \/ last = last'
        \/ last = [ev |-> "load", arg |-> last'.arg])
        => (UNCHANGED ThemeView /\ filled' = {last'.arg})

C6_ApplyThemeIdempotent == [][C6_Step]_vars

\* C6 witness: the same option was applied twice before any animation ended.
C6_Witness ==
    /\ last.ev = "click-option" /\ last.arg = "dark"
    /\ listeners["theme-icon"] = 2 /\ listeners["dark"] = 2
    /\ store = "dark" /\ filled = {"dark"}

\* C7: on a desktop-width viewport the toolbar is not 'visible' once the
\* resize handler or the scroll handler has run for that viewport.
C7_VisibleOnlyOnMobile ==
    (~Mobile /\ (~resizePending \/ last.ev = "scroll")) => ~visible

\* C7 witness: a resize was handled on a desktop viewport that had been
\* scrolled past the threshold.
C7_Witness ==
    /\ last.ev = "resize" /\ last.arg = "crossed"
    /\ ~Mobile /\ lastScrollY > 100 /\ ~visible

\* C8 as claimed: after the resize of a breakpoint crossing, in either
\* direction, the toolbar is neither 'visible' nor 'show-dropdown'.
C8_ResetOnEveryCrossing ==
    (last.ev = "resize" /\ last.arg = "crossed") => (~visible /\ ~showDropdown)

\* C8 (state part): after a resize handled at desktop width the toolbar is
\* neither 'visible' nor 'show-dropdown'.
C8_Inv == (last.ev = "resize" /\ ~Mobile) => (~visible /\ ~showDropdown)

\* C8 (step part): a resize handled at mobile width leaves both classes alone.
C8_Step == (last'.ev = "resize" /\ Mobile) => UNCHANGED <<visible, showDropdown>>

\* C8, amended: the resize handler resets the toolbar to hidden/closed when
\* it runs at desktop width, and changes nothing when it runs at mobile width.
C8_ResetOnDesktopResize == []C8_Inv /\ [][C8_Step]_vars

\* C8 witness: the crossing to desktop was handled and the toolbar is reset.
C8_Witness ==
    /\ last.ev = "resize" /\ last.arg = "crossed" /\ ~Mobile
    /\ ~visible /\ ~showDropdown /\ lastScrollY > 100

\* C9 (state part): after a click on option p the store holds p, the mode
\* is the one p gives, and on a mobile viewport the dropdown is closed.
C9_Inv ==
    last.ev = "click-option" =>
        /\ store = last.arg
        /\ dataTheme = (IF last.arg = "system" THEN OSMode ELSE last.arg)
        /\ Mobile => ~showDropdown

\* C9 (step part): on a desktop viewport an option click leaves the
\* dropdown's open state as it was; a click in the dropdown that is on no
\* option changes nothing.
C9_Step ==
    /\ (last'.ev = "click-option" /\ ~Mobile) => showDropdown' = showDropdown
    /\ (last'.ev = "click" /\ last'.arg = "dropdown")
           => UNCHANGED <<themeVars, toolbarVars, envVars>>

\* C9: an option click applies the option's theme and collapses the
\* dropdown if and only if the viewport is a mobile one.
C9_OptionClick == []C9_Inv /\ [][C9_Step]_vars

\* C9 witness: 'dark' was clicked on a mobile viewport; the dropdown closed.
C9_Witness ==
    /\ last.ev = "click-option" /\ last.arg = "dark" /\ Mobile
    /\ dataTheme = "dark" /\ store = "dark" /\ ~showDropdown /\ visible

\* C10: loaded with no stored preference, the page has the OS mode, the
\* auto glyph, 'system' in the store and no animation class on any icon.
C10_LoadWithoutPreference ==
    (last.ev = "load" /\ last.arg = "<null>") =>
        /\ dataTheme = OSMode
        /\ glyph = "brightness_auto"
        /\ store = "system"
        /\ animClass = {}
        /\ \A i \in DOMAIN listeners : listeners[i] = 0

\* C10 witness: loaded with an empty store while the OS reports dark.
C10_Witness ==
    /\ last.ev = "load" /\ last.arg = "<null>" /\ osDark
    /\ dataTheme = "dark" /\ store = "system"

\* C11: when every read and write of the preference store raises, the
\* scroll and resize handling is still registered, and a click on a theme
\* option still updates the effective mode and the filled option and, on a
\* mobile viewport, collapses the dropdown.
C11_InteractiveWithoutStorage ==
    storageThrows =>
        /\ registered
        /\ last.ev = "click-option" =>
               /\ dataTheme = (IF last.arg = "system" THEN OSMode ELSE last.arg)
               /\ filled = {last.arg}
               /\ Mobile => ~showDropdown

\* C12: once the translations are loaded, the chosen language (the document
\* language) is the canonical form of the browser locale if the map has it
\* and 'en' otherwise; the canonical form is zh-TW for the five traditional
\* tags, zh-CN for the four simplified ones, the locale itself otherwise.
C12_LanguageSelection ==
    fetchState = "done" =>
        LET canon == IF locale \in {"zh-Hant", "zh-Hant-TW", "zh-Hant-MO",
                                    "zh-Hant-HK", "zh-TW"} THEN "zh-TW"
                     ELSE IF locale \in {"zh-Hans", "zh-Hans-CN", "zh-Hans-SG",
                                         "zh-CN"} THEN "zh-CN"
                     ELSE locale
        IN docLang = (IF canon \in DOMAIN translations THEN canon ELSE "en")

\* C12 witness: zh-Hant-HK with a zh-TW table and no zh-Hant-HK table
\* selected zh-TW.
C12_Witness ==
    /\ fetchState = "done" /\ locale = "zh-Hant-HK"
    /\ "zh-TW" \in DOMAIN translations /\ "zh-Hant-HK" \notin DOMAIN translations
    /\ docLang = "zh-TW" /\ content["title"] = "zh-TW"

\* C13 (state part): after a failed fetch or parse the error was logged
\* once and the document language and content are those shipped.
C13_Inv ==
    fetchState = "failed" =>
        /\ docLang = "shipped" /\ logged = 1
        /\ \A key \in DOMAIN content : content[key] = "shipped"

\* C13 (step part): a failed load is never retried, the loader's outcome
\* changes nothing of the theme, the toolbar and the hover state, and no
\* other handler changes the document language or content.
C13_Step ==
    /\ fetchState = "failed" => fetchState' = "failed"
    /\ last'.ev = "fetch" =>
           UNCHANGED <<themeVars, toolbarVars, envVars, scrollY, loadVars, hoverVars>>
    /\ last'.ev # "fetch" => UNCHANGED <<docLang, content, logged, fetchState>>

\* C13: a translation fetch or parse failure is caught and logged, leaves
\* the page in its shipped language, is not retried, and leaves the theme,
\* toolbar and hover handlers working on their own state.
C13_FailureContained == []C13_Inv /\ [][C13_Step]_vars

\* C13 witness: the fetch failed, then a scroll made the toolbar visible.
C13_Witness ==
    /\ fetchState = "failed" /\ logged = 1 /\ docLang = "shipped"
    /\ last.ev = "scroll" /\ visible

\* C14: the scroll handler, from baseline b to offset y: on a mobile
\* viewport the toolbar becomes visible (dropdown unchanged) when y > b and
\* y > 100, hidden with the dropdown closed when y < b or y <= 100, and is
\* left alone when y = b > 100; on a desktop viewport it becomes hidden.
C14_Step ==
    last'.ev = "scroll" =>
        LET y == scrollY'
            b == lastScrollY
        IN IF Mobile
           THEN /\ (y > b /\ y > 100) => (visible' /\ showDropdown' = showDropdown)
                /\ (y < b \/ y <= 100) => (~visible' /\ ~showDropdown')
                /\ (y = b /\ y > 100) => UNCHANGED <<visible, showDropdown>>
           ELSE ~visible'

C14_ScrollHandlerResult == [][C14_Step]_vars

\* C14 witness: a scroll down past the threshold on a mobile viewport made
\* the toolbar visible and left the open dropdown open.
C14_Witness ==
    /\ last.ev = "scroll" /\ Mobile /\ lastScrollY > 100
    /\ visible /\ showDropdown

\* C15 (state part): after a scroll event the baseline is the offset that
\* event observed.
C15_Inv == last.ev = "scroll" => lastScrollY = scrollY

\* C15 (step part): no other event modifies the baseline.
C15_Step == last'.ev # "scroll" => lastScrollY' = lastScrollY

\* C15: ScrollBaseline equals the offset of the last scroll event on mobile
\* and desktop alike, and only scroll events modify it.
C15_BaselineFollowsScroll == []C15_Inv /\ [][C15_Step]_vars

\* C15 witness: a scroll on a desktop viewport moved the baseline.
C15_Witness ==
    /\ last.ev = "scroll" /\ ~Mobile /\ ~resizePending
    /\ scrollY = 102 /\ lastScrollY = 102

\* C16 (state part): an icon without its animation class has no listener
\* left attached.
C16_Inv == \A i \in DOMAIN listeners : i \notin animClass => listeners[i] = 0

\* C16 (step part): the animation-completion event on an icon with n >= 1
\* listeners removes the icon's animation class and all n listeners.
C16_Step ==
    last'.ev = "animationend" =>
        \E i \in animClass :
            /\ listeners[i] >= 1
            /\ animClass' = animClass \ {i}
            /\ listeners'[i] = 0
            /\ \A j \in DOMAIN listeners : j # i => listeners'[j] = listeners[j]

\* C16: after any number of animated applyTheme calls, the completion event
\* on an icon leaves it without animation class and without listener.
C16_NoStuckAnimation == []C16_Inv /\ [][C16_Step]_vars

\* C16 witness: 'dark' was applied twice in quick succession (the theme
\* icon still has both listeners); the option icon's animation completed.
C16_Witness ==
    /\ last.ev = "animationend" /\ store = "dark"
    /\ listeners["theme-icon"] = 2 /\ "theme-icon" \in animClass
    /\ listeners["dark"] = 0 /\ "dark" \notin animClass
    /\ listeners["light"] = 0 /\ listeners["system"] = 0

\* C17: while the pointer is inside the header or the footer, both sections
\* are collapsed, whatever the order of the enter and leave events.
C17_HoverSuppressed == (inHeader \/ inFooter) => expanded = {}

\* C18 (state part): after a pointer move outside the restricted regions,
\* on a page loaded at desktop width, the first section alone is expanded
\* when x < w/3, the second alone when x > 2w/3, none otherwise; after the
\* pointer left the window none is; never more than one is.
C18_Inv ==
    /\ (last.ev = "mousemove" /\ loadWidth >= 769 /\ ~isMouseInRestrictedZone) =>
           /\ 3 * mouseX < width => expanded = {"real-life"}
           /\ 3 * mouseX > 2 * width => expanded = {"furry-life"}
           /\ (3 * mouseX >= width /\ 3 * mouseX <= 2 * width) => expanded = {}
    /\ (last.ev = "mouseleave" /\ last.arg = "document") => expanded = {}
    /\ Cardinality(expanded) <= 1

C18_HoverZones == C18_Inv

\* C18 witness: the pointer is exactly on the boundary of the left third
\* and no section is expanded.
C18_Witness ==
    /\ last.ev = "mousemove" /\ loadWidth >= 769 /\ ~isMouseInRestrictedZone
    /\ 3 * mouseX = width /\ expanded = {}

\* C19: a page loaded below the desktop breakpoint never expands a section,
\* also after a resize to desktop width; a page loaded at desktop width
\* keeps expanding sections on pointer moves after a resize below it.
C19_HoverDecidedAtLoad ==
    /\ loadWidth <= 768 => expanded = {}
    /\ (loadWidth >= 769 /\ last.ev = "mousemove" /\ ~isMouseInRestrictedZone
            /\ 3 * mouseX < width) => expanded = {"real-life"}

\* C19 witness: loaded at desktop width, resized below the breakpoint, and
\* a pointer move in the left third expanded the first section.
C19_Witness ==
    /\ loadWidth >= 769 /\ Mobile /\ ~resizePending
    /\ last.ev = "mousemove" /\ expanded = {"real-life"}

\* C20 (state part): on a desktop-width viewport the dropdown is open only
\* while the resize event of the viewport change is still queued.
C20_Inv == (showDropdown /\ ~Mobile) => resizePending

\* C20 (step part): the dropdown is opened only by a toggle-button click on
\* a mobile viewport; that click toggles it (the document listener does not
\* undo it); on desktop the click changes nothing; a click outside the
\* toolbar on a mobile viewport leaves the dropdown closed.
C20_Step ==
    /\ (~showDropdown /\ showDropdown') =>
           (last'.ev = "click" /\ last'.arg = "button" /\ Mobile)
    /\ (last'.ev = "click" /\ last'.arg = "button" /\ Mobile) =>
           showDropdown' = ~showDropdown
    /\ (last'.ev = "click" /\ last'.arg = "button" /\ ~Mobile) =>
           UNCHANGED <<themeVars, toolbarVars, envVars>>
    /\ (last'.ev = "click" /\ last'.arg = "outside" /\ Mobile) => ~showDropdown'

\* C20: 'show-dropdown' is only ever set on a mobile viewport, by the
\* toggle button, and an outside click on mobile closes it.
C20_DropdownOnlyOnMobile == []C20_Inv /\ [][C20_Step]_vars

\* C20 witness: the toggle button was clicked on a mobile viewport and the
\* dropdown is open.
C20_Witness ==
    /\ last.ev = "click" /\ last.arg = "button" /\ Mobile /\ showDropdown

====
